---- MODULE Spec2Model ----
(***************************************************************************)
(* The caching importer of gocode: internal/cache/importer.go.             *)
(*                                                                         *)
(* A process-wide map (ImporterCache.imports) from canonical import path   *)
(* to {pkg, mtime}; New() trims the map to 100 entries and builds an       *)
(* importer; ImportFrom() takes buildDefaultLock, installs the importer's  *)
(* settings into go/build.Default, resolves the import through the map,    *)
(* and restores build.Default and releases the lock in its deferred calls. *)
(*                                                                         *)
(* Time is counted in minutes.  A time.Time is modelled as [kind, t]:      *)
(* the zero value, a file modification time (os.FileInfo.ModTime, which    *)
(* carries a location and no monotonic reading) or a time.Now() reading    *)
(* (which carries a monotonic reading); Go's != on time.Time compares the  *)
(* structs, so values of different kinds are never equal.                  *)
(*                                                                         *)
(* Three specifications share the actions: Spec (one caller, packages      *)
(* whose artifacts change while time passes), SpecCap (one caller          *)
(* importing ever new packages, for the capacity of the map) and SpecConc  *)
(* (two callers, each with its own importer, step by step).                *)
(* SpecLive is SpecConc under fair scheduling.  SpecGb and SpecGbConc are   *)
(* the build-triggering importer (gbimporter) with one and two callers,    *)
(* and SpecJoin applies joinPath to a set of argument lists.               *)
(***************************************************************************)
EXTENDS Integers, FiniteSets, Sequences, TLC

\* ------------------------------------------------------------------ bounds
\* Packages in all; those whose artifact changes (one caller); those two
\* callers import; artifact modification times; clock ticks.
NumIds == 101
NumTracked == 1
NumConcIds == 2
NumDirs == 1
MaxDepth == 2
MaxMTime == 2
MaxTicks == 2

\* ------------------------------------------------------- program constants
MaxEntries == 100
TTL == 10

\* --------------------------------------------------------------- universes
Ids == 1..NumIds
Tracked == 1..NumTracked
ConcIds == 1..NumConcIds
Dirs == 1..NumDirs
\* The packages whose artifact and call history are followed; every other
\* package has an artifact that never changes.
VarIds == Tracked \cup ConcIds
TickStep == TTL \div 2
SeqProcs == {1}
Procs == {1, 2}
NoProc == 0
OrigDefault == 0

VARIABLES imports, files, now, buildDefault, lockHolder, crashed,
          imp, pc, arg, entry, origDef, seenDef, ret, hist, cleanPre

\* The build-triggering importer (gbimporter): its installedMap, the newest
\* source time and the artifact time of each source directory, the builds
\* run for it since its sources last changed, and each caller's `mtime`,
\* `pkgMTime` and the outcome of the build it ran.
VARIABLES installedMap, srcM, pkgM, builds, mt, pmt, built

\* joinPath: the importer's gbroot, the arguments and the result.
VARIABLES jpRoot, jpElems, jpOut

gbvars == <<installedMap, srcM, pkgM, builds, mt, pmt, built>>

jpvars == <<jpRoot, jpElems, jpOut>>

aux == <<gbvars, jpvars>>

vars == <<imports, files, now, buildDefault, lockHolder, crashed,
          imp, pc, arg, entry, origDef, seenDef, ret, hist, cleanPre, aux>>

\* ------------------------------------------------------------------ values
\* The instant of the zero time.Time.  Instants are counted from an origin
\* of the model's choosing; this one is also a possible modification time
\* of a file.
ZeroInstant == 1

ZeroTime == [kind |-> "zero", t |-> ZeroInstant]

FileTime(m) == [kind |-> "file", t |-> m]

NowTime(n) == [kind |-> "now", t |-> n]

NilPkg == [how |-> "nil", path |-> 0, ver |-> 0]

GcPkg(id, m) == [how |-> "gc", path |-> id, ver |-> m]

UnderlyingPkg(id) == [how |-> "underlying", path |-> id, ver |-> 0]

SourcePkg(id) == [how |-> "source", path |-> id, ver |-> 0]

ZeroEntry == [pkg |-> NilPkg, mtime |-> ZeroTime]

NoEntry == [e |-> ZeroEntry, ok |-> FALSE]

NoRet == [pkg |-> NilPkg, err |-> "nil", store |-> FALSE, newEntry |-> ZeroEntry,
          decoded |-> FALSE, underCalled |-> FALSE, srcCalled |-> FALSE,
          hadFile |-> FALSE, mtime |-> 0, age |-> 0, prior |-> "none",
          u |-> "none", s |-> "none"]

Failures == {"none", "stat", "open", "reader", "decode"}

Outcomes == {"ok", "fail"}

ArtifactErrs == {"stat", "open", "reader", "decode"}

CtxOf(p) == p

\* Variants: the delete takes a second key with it; the store drops the
\* other keys.
RemoveAlso(m, k) == [x \in DOMAIN m \ {k, CHOOSE y \in DOMAIN m : TRUE} |-> m[x]]

StoreAlone(m, k, e) == [x \in {k} |-> e]

\* The map without key k (delete(i.imports, k)).
Remove(m, k) == [x \in DOMAIN m \ {k} |-> m[x]]

\* The map with key k set to e (i.imports[k] = e).
Store(m, k, e) == [x \in DOMAIN m \cup {k} |-> IF x = k THEN e ELSE m[x]]

\* entry, ok := i.imports[path]
Lookup(m, k) == IF k \in DOMAIN m THEN [e |-> m[k], ok |-> TRUE] ELSE NoEntry

Min(S) == CHOOSE x \in S : \A y \in S : x <= y

MinOf(a, b) == IF a <= b THEN a ELSE b

\* The modification time of the package's .a file, 0 when there is none.
FileOf(f, id) == IF id \in DOMAIN f THEN f[id] ELSE 1

\* The history of package id with h recorded for it.
Noted(hs, id, h) == IF id \in DOMAIN hs THEN [hs EXCEPT ![id] = h] ELSE hs

\* ----------------------------------------------------- ImportFrom's body
\* time.Since(entry.mtime) at `now`.
Since(e, n) == n - e.mtime.t

\* Line 116: the cached entry is served without importing.
ServeCached(e, ok, n) == ok /\ Since(e, n) >= TTL

\* Lines 113-130: no .a file was found.
FallbackImport(id, e, ok, n, u, s) ==
    IF ServeCached(e, ok, n)
    THEN [NoRet EXCEPT !.pkg = e.pkg]
    ELSE LET pkg1 == IF u = "ok" THEN UnderlyingPkg(id) ELSE NilPkg
             err == IF u = "ok" THEN "nil" ELSE "notfound"
             pkg2 == IF pkg1 = NilPkg
                     THEN (IF s = "ok" THEN SourcePkg(id) ELSE NilPkg)
                     ELSE pkg1
         IN [NoRet EXCEPT !.pkg = pkg2, !.err = err,
                          !.store = (pkg2 # NilPkg),
                          !.newEntry = [pkg |-> pkg2, mtime |-> NowTime(n)],
                          !.underCalled = TRUE,
                          !.srcCalled = (pkg1 = NilPkg),
                          !.u = u,
                          !.s = IF pkg1 = NilPkg THEN s ELSE "none"]

\* Variants: the artifact is decoded on every call; only a newer artifact
\* is decoded again.
StaleAlways(e, m) == TRUE

StaleIfNewer(e, m) == e.mtime.t < m

\* Variant: the instants are compared, as with time.Time.Equal.
StaleByInstant(e, m) == e.mtime.t # m

\* Line 136: entry.mtime != fi.ModTime()
Stale(e, m) == e.mtime # FileTime(m)

\* Variant: a failed decode is remembered in the map.
ArtifactImportNegative(id, e, m, fail) ==
    IF fail = "stat"
    THEN [NoRet EXCEPT !.err = "stat"]
    ELSE IF e.mtime # FileTime(m)
    THEN IF fail \in {"open", "reader"}
         THEN [NoRet EXCEPT !.err = fail]
         ELSE IF fail = "decode"
         THEN [NoRet EXCEPT !.err = "decode", !.decoded = TRUE, !.store = TRUE,
                            !.newEntry = [pkg |-> NilPkg, mtime |-> FileTime(m)]]
         ELSE [NoRet EXCEPT !.pkg = GcPkg(id, m), !.decoded = TRUE,
                            !.store = TRUE,
                            !.newEntry = [pkg |-> GcPkg(id, m), mtime |-> FileTime(m)]]
    ELSE [NoRet EXCEPT !.pkg = e.pkg]

\* Lines 131-156: the .a file `filename` with modification time m.
ArtifactImport(id, e, m, fail) ==
    IF fail = "stat"
    THEN [NoRet EXCEPT !.err = "stat"]
    ELSE IF Stale(e, m)
    THEN IF fail \in {"open", "reader"}
         THEN [NoRet EXCEPT !.err = fail]
         ELSE IF fail = "decode"
         THEN [NoRet EXCEPT !.err = "decode", !.decoded = TRUE]
         ELSE [NoRet EXCEPT !.pkg = GcPkg(id, m), !.decoded = TRUE,
                            !.store = TRUE,
                            !.newEntry = [pkg |-> GcPkg(id, m), mtime |-> FileTime(m)]]
    ELSE [NoRet EXCEPT !.pkg = e.pkg]

\* Lines 111-156, after the lookup: what the call returns and stores.
Resolved(id, e, ok, m, n, fail, u, s) ==
    IF m = 0
    THEN FallbackImport(id, e, ok, n, u, s)
    ELSE ArtifactImport(id, e, m, fail)

\* What the call leaves in the history of its id.
Outcome(r) ==
    IF r.hadFile /\ r.err = "nil" THEN "ok"
    ELSE IF r.err = "decode" THEN "decodeFailed"
    ELSE "none"

\* -------------------------------------------------------------------- Init
\* The map is empty, build.Default is the process's own, the lock is free,
\* no importer exists yet.  Package 1 starts without a .a file.
Init ==
    /\ imports = << >>
    /\ files = [id \in VarIds |-> IF id = 1 THEN 0 ELSE 1]
    /\ now = 0
    /\ buildDefault = OrigDefault
    /\ lockHolder = NoProc
    /\ crashed = FALSE
    /\ imp = [p \in Procs |-> NoProc]
    /\ pc = [p \in Procs |-> "idle"]
    /\ arg = [p \in Procs |-> 0]
    /\ entry = [p \in Procs |-> NoEntry]
    /\ origDef = [p \in Procs |-> OrigDefault]
    /\ seenDef = [p \in Procs |-> OrigDefault]
    /\ ret = [p \in Procs |-> NoRet]
    /\ hist = [id \in VarIds |-> "none"]
    /\ cleanPre = [p \in Procs |-> << >>]
    /\ installedMap = << >>
    /\ srcM = [d \in Dirs |-> 1]
    /\ pkgM = [d \in Dirs |-> 0]
    /\ builds = [d \in Dirs |-> 0]
    /\ mt = [p \in Procs |-> 0]
    /\ pmt = [p \in Procs |-> 0]
    /\ built = [p \in Procs |-> "none"]
    /\ jpRoot = << >>
    /\ jpElems = << >>
    /\ jpOut = << >>

\* ----------------------------------------------------------------- New
\* Line 29-30: New calls ImporterCache.cleanImporter() without any lock.
NewCall(p) ==
    /\ ~crashed
    /\ pc[p] = "idle"
    /\ pc' = [pc EXCEPT ![p] = "clean"]
    /\ cleanPre' = [cleanPre EXCEPT ![p] = imports]
    /\ UNCHANGED <<imports, files, now, buildDefault, lockHolder, crashed,
                   imp, arg, entry, origDef, seenDef, ret, hist>>
    /\ UNCHANGED aux

\* Lines 161-168, one iteration of cleanImporter's range loop; when the loop
\* is left, lines 31-61: the importer is built.
CleanIter(p) ==
    /\ ~crashed
    /\ pc[p] = "clean"
    /\ IF Cardinality(DOMAIN imports) <= MaxEntries
       THEN /\ pc' = [pc EXCEPT ![p] = "idle"]
            /\ imp' = [imp EXCEPT ![p] = CtxOf(p)]
            /\ cleanPre' = [cleanPre EXCEPT ![p] = << >>]
            /\ UNCHANGED <<imports, hist>>
       ELSE /\ \E k \in DOMAIN imports :
                 /\ imports' = Remove(imports, k)
                 /\ hist' = Noted(hist, k, "none")
            /\ UNCHANGED <<pc, imp, cleanPre>>
    /\ UNCHANGED <<files, now, buildDefault, lockHolder, crashed,
                   arg, entry, origDef, seenDef, ret>>
    /\ UNCHANGED aux

\* ----------------------------------------------------------- ImportFrom
\* Line 86: a caller enters ImportFrom(importPath, srcDir, mode) on its importer.
Call(p, id) ==
    /\ ~crashed
    /\ pc[p] = "idle"
    /\ imp[p] # NoProc
    /\ pc' = [pc EXCEPT ![p] = "lock"]
    /\ arg' = [arg EXCEPT ![p] = id]
    /\ UNCHANGED <<imports, files, now, buildDefault, lockHolder, crashed,
                   imp, entry, origDef, seenDef, ret, hist>>
    /\ UNCHANGED <<cleanPre, aux>>

\* Variant: Lock() never waits.
LockNeverWaits == TRUE

\* buildDefaultLock is free.
LockFree == lockHolder = NoProc

\* Line 88: buildDefaultLock.Lock()
Lock(p) ==
    /\ ~crashed
    /\ pc[p] = "lock"
    /\ LockFree
    /\ lockHolder' = p
    /\ pc' = [pc EXCEPT ![p] = "install"]
    /\ UNCHANGED <<imports, files, now, buildDefault, crashed,
                   imp, arg, entry, origDef, seenDef, ret, hist>>
    /\ UNCHANGED <<cleanPre, aux>>

\* Lines 91-109: origDef := build.Default; the importer's settings go in.
Install(p) ==
    /\ ~crashed
    /\ pc[p] = "install"
    /\ origDef' = [origDef EXCEPT ![p] = buildDefault]
    /\ buildDefault' = imp[p]
    /\ pc' = [pc EXCEPT ![p] = "find"]
    /\ UNCHANGED <<imports, files, now, lockHolder, crashed,
                   imp, arg, entry, seenDef, ret, hist>>
    /\ UNCHANGED <<cleanPre, aux>>

\* Lines 111-112: gcexportdata.Find reads build.Default; the map is read.
Find(p) ==
    /\ ~crashed
    /\ pc[p] = "find"
    /\ seenDef' = [seenDef EXCEPT ![p] = buildDefault]
    /\ entry' = [entry EXCEPT ![p] = Lookup(imports, arg[p])]
    /\ pc' = [pc EXCEPT ![p] = "resolve"]
    /\ UNCHANGED <<imports, files, now, buildDefault, lockHolder, crashed,
                   imp, arg, origDef, ret, hist>>
    /\ UNCHANGED <<cleanPre, aux>>

\* Lines 113-156: the fallback import or the artifact import; every return
\* leads to the deferred calls.
Resolve(p) ==
    /\ ~crashed
    /\ pc[p] = "resolve"
    /\ \E fail \in Failures, u \in Outcomes, s \in Outcomes :
         LET id == arg[p]
             e == entry[p].e
             ok == entry[p].ok
             m == FileOf(files, id)
             r0 == Resolved(id, e, ok, m, now, fail, u, s)
             r == [r0 EXCEPT !.hadFile = (m # 0), !.mtime = m,
                             !.age = IF ok THEN Since(e, now) ELSE 0,
                             !.prior = IF id \in DOMAIN hist THEN hist[id] ELSE "none"]
         IN /\ imports' = IF r.store THEN Store(imports, id, r.newEntry) ELSE imports
            /\ ret' = [ret EXCEPT ![p] = r]
            /\ hist' = Noted(hist, id, Outcome(r))
    /\ pc' = [pc EXCEPT ![p] = "restore"]
    /\ UNCHANGED <<files, now, buildDefault, lockHolder, crashed,
                   imp, arg, entry, origDef, seenDef>>
    /\ UNCHANGED <<cleanPre, aux>>

\* Variant: build.Default is put back only before a successful return.
RestoredOnSuccess(p) == IF ret[p].err = "nil" THEN origDef[p] ELSE buildDefault

\* What the deferred func of line 92 writes back.
Restored(p) == origDef[p]

\* Line 92 (deferred): build.Default = origDef
Restore(p) ==
    /\ ~crashed
    /\ pc[p] = "restore"
    /\ buildDefault' = Restored(p)
    /\ pc' = [pc EXCEPT ![p] = "unlock"]
    /\ UNCHANGED <<imports, files, now, lockHolder, crashed,
                   imp, arg, entry, origDef, seenDef, ret, hist>>
    /\ UNCHANGED <<cleanPre, aux>>

\* Line 89 (deferred): buildDefaultLock.Unlock(); the call returns.
Unlock(p) ==
    /\ ~crashed
    /\ pc[p] = "unlock"
    /\ lockHolder' = NoProc
    /\ pc' = [pc EXCEPT ![p] = "idle"]
    /\ arg' = [arg EXCEPT ![p] = 0]
    /\ entry' = [entry EXCEPT ![p] = NoEntry]
    /\ ret' = [ret EXCEPT ![p] = NoRet]
    /\ UNCHANGED <<imports, files, now, buildDefault, crashed,
                   imp, origDef, seenDef, hist>>
    /\ UNCHANGED <<cleanPre, aux>>

\* ----------------------------------------------------------- environment
\* The artifact of a package is rebuilt, removed or created.
Touch(id) ==
    /\ ~crashed
    /\ \E m \in 0..MaxMTime :
         /\ m # files[id]
         /\ files' = [files EXCEPT ![id] = m]
    /\ hist' = [hist EXCEPT ![id] = "none"]
    /\ UNCHANGED <<imports, now, buildDefault, lockHolder, crashed,
                   imp, pc, arg, entry, origDef, seenDef, ret>>
    /\ UNCHANGED <<cleanPre, aux>>

\* Time passes.
Tick ==
    /\ ~crashed
    /\ now + TickStep <= MaxTicks * TickStep
    /\ now' = now + TickStep
    /\ UNCHANGED <<imports, files, buildDefault, lockHolder, crashed,
                   imp, pc, arg, entry, origDef, seenDef, ret, hist>>
    /\ UNCHANGED <<cleanPre, aux>>

\* ---------------------------------------------------------- specifications
Steps(p) ==
    \/ NewCall(p)
    \/ CleanIter(p)
    \/ Lock(p)
    \/ Install(p)
    \/ Find(p)
    \/ Resolve(p)
    \/ Restore(p)
    \/ Unlock(p)

\* One caller, a few packages whose artifacts change over time.
Next ==
    \/ \E p \in SeqProcs : Steps(p)
    \/ \E p \in SeqProcs, id \in Tracked : Call(p, id)
    \/ \E id \in Tracked : Touch(id)
    \/ Tick

Spec == Init /\ [][Next]_vars

\* The ids not yet in the map are interchangeable: a new one is taken in
\* increasing order.
FreshIds ==
    IF Ids \ DOMAIN imports = {} THEN {} ELSE {Min(Ids \ DOMAIN imports)}

\* One caller importing ever new packages, and package 1 again.
NextCap ==
    \/ \E p \in SeqProcs : Steps(p)
    \/ \E p \in SeqProcs, id \in FreshIds : Call(p, id)
    \/ \E p \in SeqProcs, id \in {1} \cap DOMAIN imports : Call(p, id)

SpecCap == Init /\ [][NextCap]_vars

\* A process is inside cleanImporter's range loop, or between ImportFrom's
\* map lookup (line 112) and its store (lines 127, 153).
InMap(p) == pc[p] \in {"clean", "resolve"}

\* An unsynchronised map iteration meets a map write: the Go runtime may
\* detect it and throw ("concurrent map iteration and map write"), which
\* ends the process.
MapRace ==
    /\ ~crashed
    /\ \E p, q \in Procs : p # q /\ pc[p] = "clean" /\ pc[q] = "resolve"
    /\ crashed' = TRUE
    /\ UNCHANGED <<imports, files, now, buildDefault, lockHolder,
                   imp, pc, arg, entry, origDef, seenDef, ret, hist>>
    /\ UNCHANGED <<cleanPre, aux>>

\* Two callers, each with its own importer.
NextConc ==
    \/ \E p \in Procs : Steps(p)
    \/ \E p \in Procs, id \in ConcIds : Call(p, id)
    \/ MapRace

SpecConc == Init /\ [][NextConc]_vars

\* The scheduler runs every goroutine that can take a step, and a
\* sync.Mutex hands the lock to a goroutine that keeps waiting for it
\* (starvation mode).
Fairness ==
    \A p \in Procs :
        /\ WF_vars(CleanIter(p))
        /\ SF_vars(Lock(p))
        /\ WF_vars(Install(p))
        /\ WF_vars(Find(p))
        /\ WF_vars(Resolve(p))
        /\ WF_vars(Restore(p))
        /\ WF_vars(Unlock(p))

SpecLive == SpecConc /\ Fairness

\* ------------------------------------------------------------ gbimporter
\* The build-triggering importer (part_002; part_001 is the same without
\* the source importer).  A source directory d stands for `target`; srcM[d]
\* is newest(target, ".go"), 0 when the directory has no .go file or cannot
\* be read; pkgM[d] is modTime of its .a file, 0 when there is none.
cachevars == <<imports, files, now, imp, entry, seenDef, hist, cleanPre>>

BuildResults == {"ok", "failed"}

\* Variant: a failed build is returned to the caller.
ImportResultBuildError(id, b, u, s) ==
    IF b = "failed"
    THEN [NoRet EXCEPT !.err = "build"]
    ELSE [NoRet EXCEPT !.pkg = IF u = "ok" THEN UnderlyingPkg(id) ELSE NilPkg,
                       !.err = IF u = "ok" THEN "nil" ELSE "notfound"]

\* Lines 82, 104-109: what ImportFrom returns after tryInstallPackage ran a
\* build with outcome b ("none": no build); tryInstallPackage returns
\* nothing and line 137-139 only logs the build's error.
ImportResult(id, b, u, s) ==
    LET pkg1 == IF u = "ok" THEN UnderlyingPkg(id) ELSE NilPkg
        err == IF u = "ok" THEN "nil" ELSE "notfound"
        pkg2 == IF pkg1 = NilPkg
                THEN (IF s = "ok" THEN SourcePkg(id) ELSE NilPkg)
                ELSE pkg1
    IN [NoRet EXCEPT !.pkg = pkg2, !.err = err,
                     !.underCalled = TRUE,
                     !.srcCalled = (pkg1 = NilPkg),
                     !.u = u,
                     !.s = IF pkg1 = NilPkg THEN s ELSE "none"]

\* Variant: the record of the directory is not consulted.
NeedsBuildAlways(m, d, mtime) == TRUE

\* Line 135: !ok || info.MTime == 0 || info.MTime < mtime
NeedsBuild(m, d, mtime) == d \notin DOMAIN m \/ m[d] = 0 \/ m[d] < mtime

\* Line 81: a caller enters ImportFrom for a package of source directory d.
GbCall(p, d) ==
    /\ ~crashed
    /\ pc[p] = "idle"
    /\ pc' = [pc EXCEPT ![p] = "gbNewest"]
    /\ arg' = [arg EXCEPT ![p] = d]
    /\ built' = [built EXCEPT ![p] = "none"]
    /\ ret' = [ret EXCEPT ![p] = NoRet]
    /\ UNCHANGED <<buildDefault, lockHolder, crashed, origDef>>
    /\ UNCHANGED <<installedMap, srcM, pkgM, builds, mt, pmt>>
    /\ UNCHANGED <<cachevars, jpvars>>

\* Lines 113-124: mtime, err := newest(target, ".go"); return when there is
\* nothing to build from.
GbNewest(p) ==
    /\ ~crashed
    /\ pc[p] = "gbNewest"
    /\ mt' = [mt EXCEPT ![p] = srcM[arg[p]]]
    /\ pc' = [pc EXCEPT ![p] = IF srcM[arg[p]] = 0 THEN "gbLock" ELSE "gbCheck"]
    /\ UNCHANGED <<buildDefault, lockHolder, crashed, origDef, arg, ret>>
    /\ UNCHANGED <<installedMap, srcM, pkgM, builds, pmt, built>>
    /\ UNCHANGED <<cachevars, jpvars>>

\* Lines 126-133: an artifact newer than the sources is recorded and the
\* build is skipped.
GbCheck(p) ==
    /\ ~crashed
    /\ pc[p] = "gbCheck"
    /\ pmt' = [pmt EXCEPT ![p] = pkgM[arg[p]]]
    /\ IF pkgM[arg[p]] > mt[p]
       THEN /\ installedMap' = Store(installedMap, arg[p], mt[p])
            /\ pc' = [pc EXCEPT ![p] = "gbLock"]
       ELSE /\ pc' = [pc EXCEPT ![p] = "gbRead"]
            /\ UNCHANGED installedMap
    /\ UNCHANGED <<buildDefault, lockHolder, crashed, origDef, arg, ret>>
    /\ UNCHANGED <<srcM, pkgM, builds, mt, built>>
    /\ UNCHANGED <<cachevars, jpvars>>

\* Lines 134-136: the record of the directory decides whether to build.
GbRead(p) ==
    /\ ~crashed
    /\ pc[p] = "gbRead"
    /\ pc' = [pc EXCEPT ![p] = IF NeedsBuild(installedMap, arg[p], mt[p])
                               THEN "gbBuild" ELSE "gbLock"]
    /\ UNCHANGED <<buildDefault, lockHolder, crashed, origDef, arg, ret>>
    /\ UNCHANGED gbvars
    /\ UNCHANGED <<cachevars, jpvars>>

\* Lines 137-139: exec.Command("go", "install", target).Run(); an error is
\* logged.  A build that succeeds leaves the artifact as it was or written
\* at a time not before the sources'.
GbBuild(p) ==
    /\ ~crashed
    /\ pc[p] = "gbBuild"
    /\ \E b \in BuildResults :
         /\ built' = [built EXCEPT ![p] = b]
         /\ IF b = "ok"
            THEN \E m \in {pkgM[arg[p]]} \cup (mt[p]..MaxMTime) :
                    pkgM' = [pkgM EXCEPT ![arg[p]] = m]
            ELSE UNCHANGED pkgM
    /\ builds' = [builds EXCEPT ![arg[p]] = @ + 1]
    /\ pc' = [pc EXCEPT ![p] = "gbRecord"]
    /\ UNCHANGED <<buildDefault, lockHolder, crashed, origDef, arg, ret>>
    /\ UNCHANGED <<installedMap, srcM, mt, pmt>>
    /\ UNCHANGED <<cachevars, jpvars>>

\* Line 140: installedMap[target] = &installedInfo{Target: target, MTime: mtime}
GbRecord(p) ==
    /\ ~crashed
    /\ pc[p] = "gbRecord"
    /\ installedMap' = Store(installedMap, arg[p], mt[p])
    /\ pc' = [pc EXCEPT ![p] = "gbLock"]
    /\ UNCHANGED <<buildDefault, lockHolder, crashed, origDef, arg, ret>>
    /\ UNCHANGED <<srcM, pkgM, builds, mt, pmt, built>>
    /\ UNCHANGED <<cachevars, jpvars>>

\* Line 83: buildDefaultLock.Lock()
GbLock(p) ==
    /\ ~crashed
    /\ pc[p] = "gbLock"
    /\ LockFree
    /\ lockHolder' = p
    /\ pc' = [pc EXCEPT ![p] = "gbInstall"]
    /\ UNCHANGED <<buildDefault, crashed, origDef, arg, ret>>
    /\ UNCHANGED gbvars
    /\ UNCHANGED <<cachevars, jpvars>>

\* Lines 86-102: origDef := build.Default; the importer's settings go in.
GbInstall(p) ==
    /\ ~crashed
    /\ pc[p] = "gbInstall"
    /\ origDef' = [origDef EXCEPT ![p] = buildDefault]
    /\ buildDefault' = CtxOf(p)
    /\ pc' = [pc EXCEPT ![p] = "gbImport"]
    /\ UNCHANGED <<lockHolder, crashed, arg, ret>>
    /\ UNCHANGED gbvars
    /\ UNCHANGED <<cachevars, jpvars>>

\* Lines 104-109: the underlying importer, then the source importer.
GbImport(p) ==
    /\ ~crashed
    /\ pc[p] = "gbImport"
    /\ \E u \in Outcomes, s \in Outcomes :
         ret' = [ret EXCEPT ![p] = ImportResult(arg[p], built[p], u, s)]
    /\ pc' = [pc EXCEPT ![p] = "gbRestore"]
    /\ UNCHANGED <<buildDefault, lockHolder, crashed, origDef, arg>>
    /\ UNCHANGED gbvars
    /\ UNCHANGED <<cachevars, jpvars>>

\* Line 87, deferred: build.Default = origDef
GbRestore(p) ==
    /\ ~crashed
    /\ pc[p] = "gbRestore"
    /\ buildDefault' = origDef[p]
    /\ pc' = [pc EXCEPT ![p] = "gbUnlock"]
    /\ UNCHANGED <<lockHolder, crashed, origDef, arg, ret>>
    /\ UNCHANGED gbvars
    /\ UNCHANGED <<cachevars, jpvars>>

\* Line 84, deferred: buildDefaultLock.Unlock(); the call returns.
GbUnlock(p) ==
    /\ ~crashed
    /\ pc[p] = "gbUnlock"
    /\ lockHolder' = NoProc
    /\ pc' = [pc EXCEPT ![p] = "idle"]
    /\ UNCHANGED <<buildDefault, crashed, origDef, arg, ret>>
    /\ UNCHANGED gbvars
    /\ UNCHANGED <<cachevars, jpvars>>

\* Inside tryInstallPackage, from newest() to the last map access.
InTry(p) == pc[p] \in {"gbNewest", "gbCheck", "gbRead", "gbBuild", "gbRecord"}

\* A call of the build-triggering importer that has run its body and not yet
\* returned: ret[p] is its result, built[p] the outcome of its build.
GbReturning(p) == pc[p] \in {"gbRestore", "gbUnlock"}

\* At one of tryInstallPackage's accesses to installedMap (lines 130, 134,
\* 140).
AtInstalledMap(p) == pc[p] \in {"gbCheck", "gbRead", "gbRecord"}

\* The environment: a source file of d is written, added or removed while
\* no call is looking at d; a new count of builds starts.
SrcTouch(d) ==
    /\ ~crashed
    /\ \A p \in Procs : InTry(p) => arg[p] # d
    /\ \E m \in 0..MaxMTime :
         /\ m # srcM[d]
         /\ srcM' = [srcM EXCEPT ![d] = m]
    /\ builds' = [builds EXCEPT ![d] = 0]
    /\ UNCHANGED <<buildDefault, lockHolder, crashed, origDef, pc, arg, ret>>
    /\ UNCHANGED <<installedMap, pkgM, mt, pmt, built>>
    /\ UNCHANGED <<cachevars, jpvars>>

\* The environment: the artifact of d is written or removed.
PkgTouch(d) ==
    /\ ~crashed
    /\ \E m \in 0..MaxMTime :
         /\ m # pkgM[d]
         /\ pkgM' = [pkgM EXCEPT ![d] = m]
    /\ UNCHANGED <<buildDefault, lockHolder, crashed, origDef, pc, arg, ret>>
    /\ UNCHANGED <<installedMap, srcM, builds, mt, pmt, built>>
    /\ UNCHANGED <<cachevars, jpvars>>

GbSteps(p) ==
    \/ GbNewest(p)
    \/ GbCheck(p)
    \/ GbRead(p)
    \/ GbBuild(p)
    \/ GbRecord(p)
    \/ GbLock(p)
    \/ GbInstall(p)
    \/ GbImport(p)
    \/ GbRestore(p)
    \/ GbUnlock(p)

\* One caller of the build-triggering importer; sources and artifacts change.
NextGb ==
    \/ \E p \in SeqProcs : GbSteps(p)
    \/ \E p \in SeqProcs, d \in Dirs : GbCall(p, d)
    \/ \E d \in Dirs : SrcTouch(d)
    \/ \E d \in Dirs : PkgTouch(d)

SpecGb == Init /\ [][NextGb]_vars

\* An unsynchronised write of installedMap meets another access of it: the
\* Go runtime may detect it and throw ("concurrent map writes", "concurrent
\* map read and map write").
GbMapRace ==
    /\ ~crashed
    /\ \E p, q \in Procs :
         p # q /\ pc[p] = "gbRecord" /\ pc[q] \in {"gbRead", "gbRecord"}
    /\ crashed' = TRUE
    /\ UNCHANGED <<buildDefault, lockHolder, origDef, pc, arg, ret>>
    /\ UNCHANGED gbvars
    /\ UNCHANGED <<cachevars, jpvars>>

\* Two callers of the build-triggering importer.
NextGbConc ==
    \/ \E p \in Procs : GbSteps(p)
    \/ \E p \in Procs, d \in Dirs : GbCall(p, d)
    \/ GbMapRace

SpecGbConc == Init /\ [][NextGbConc]_vars

\* ---------------------------------------------------------------- joinPath
\* A path is a sequence of pieces of text: "/" is the separator, "os_arch"
\* is fmt.Sprintf("%s_%s", GOOS, GOARCH), "os-arch" the same with a dash,
\* and the other pieces are names.  The paths contain no "." or ".."
\* element, so that filepath.Clean only removes empty elements.
Sep == "/"

OsArch == "os_arch"

OsDashArch == "os-arch"

IsAbs(s) == s # << >> /\ Head(s) = Sep

\* The index of the first separator of s, Len(s) + 1 when it has none.
FirstSep(s) ==
    IF \E i \in 1..Len(s) : s[i] = Sep
    THEN Min({i \in 1..Len(s) : s[i] = Sep})
    ELSE Len(s) + 1

RECURSIVE Segs(_)
\* The non-empty elements of path s.
Segs(s) ==
    IF s = << >> THEN << >>
    ELSE IF Head(s) = Sep THEN Segs(Tail(s))
    ELSE <<SubSeq(s, 1, FirstSep(s) - 1)>> \o Segs(SubSeq(s, FirstSep(s), Len(s)))

RECURSIVE JoinSep(_)
\* strings.Join(ss, "/")
JoinSep(ss) ==
    IF ss = << >> THEN << >>
    ELSE IF Len(ss) = 1 THEN ss[1]
    ELSE ss[1] \o <<Sep>> \o JoinSep(Tail(ss))

\* filepath.Clean
Clean(s) ==
    IF IsAbs(s) THEN <<Sep>> \o JoinSep(Segs(s))
    ELSE IF Segs(s) = << >> THEN <<".">>
    ELSE JoinSep(Segs(s))

\* filepath.Join(elem...)
Join(elem) ==
    LET ne == SelectSeq(elem, LAMBDA e : e # << >>)
    IN IF ne = << >> THEN << >> ELSE Clean(JoinSep(ne))

\* The number of leading elements sb and st have in common.
Common(sb, st) ==
    LET n == MinOf(Len(sb), Len(st))
        same == {k \in 0..n : \A i \in 1..k : sb[i] = st[i]}
    IN CHOOSE k \in same : \A j \in same : j <= k

\* filepath.Rel(basepath, targpath)
Rel(basepath, targpath) ==
    LET sb == Segs(Clean(basepath))
        st == Segs(Clean(targpath))
        k == Common(sb, st)
        ups == [i \in 1..(Len(sb) - k) |-> <<"..">>]
    IN IF IsAbs(basepath) # IsAbs(targpath)
       THEN [rel |-> << >>, err |-> TRUE]
       ELSE IF sb = st
       THEN [rel |-> <<".">>, err |-> FALSE]
       ELSE [rel |-> JoinSep(ups \o SubSeq(st, k + 1, Len(st))), err |-> FALSE]

IsPrefix(prefix, s) ==
    Len(prefix) <= Len(s) /\ SubSeq(s, 1, Len(prefix)) = prefix

\* strings.TrimPrefix(s, prefix)
TrimPrefix(s, prefix) ==
    IF IsPrefix(prefix, s) THEN SubSeq(s, Len(prefix) + 1, Len(s)) ELSE s

\* Lines 204-207.
match(s, prefix) ==
    [rest |-> TrimPrefix(s, prefix), ok |-> Len(TrimPrefix(s, prefix)) < Len(s)]

\* Lines 178-202.
joinPath(gbroot, elem) ==
    LET res == Join(elem)
        r == Rel(gbroot, res)
        g1 == match(r.rel, <<"vendor", Sep>>).rest
        m2 == match(g1, <<"pkg", Sep, OsArch>>)
        m3 == match(m2.rest, <<"_">>)
        g3 == IF m3.ok THEN <<"-">> \o m3.rest ELSE m3.rest
        g4 == <<"pkg", Sep, OsDashArch, Sep>> \o g3
    IN IF gbroot = << >> THEN res
       ELSE IF r.err THEN res
       ELSE IF ~m2.ok THEN res
       ELSE Join(<<gbroot, g4>>)

\* The arguments joinPath is applied to: the importer's gbroot or none; a
\* root directory, then "pkg" or "src", then one directory name, then up to
\* MaxDepth names.
Roots == {<< >>, <<Sep, "R">>}

Bases == {<<Sep, "R">>, <<Sep, "R", Sep, "vendor">>, <<Sep, "G">>}

Tops == {<<"pkg">>, <<"src">>}

ArchDirs == {<<OsArch>>, <<OsArch, "_", "race">>, <<OsArch, "x">>, <<OsDashArch>>, <<"lib">>}

Names == {"x", "foo.a"}

Rests == UNION {[1..n -> Names] : n \in 0..MaxDepth}

ElemLists ==
    {<<b, t, a, JoinSep([i \in 1..Len(r) |-> <<r[i]>>])>> :
        b \in Bases, t \in Tops, a \in ArchDirs, r \in Rests}

InitJoin ==
    /\ imports = << >>
    /\ files = [id \in VarIds |-> IF id = 1 THEN 0 ELSE 1]
    /\ now = 0
    /\ buildDefault = OrigDefault
    /\ lockHolder = NoProc
    /\ crashed = FALSE
    /\ imp = [p \in Procs |-> NoProc]
    /\ pc = [p \in Procs |-> "idle"]
    /\ arg = [p \in Procs |-> 0]
    /\ entry = [p \in Procs |-> NoEntry]
    /\ origDef = [p \in Procs |-> OrigDefault]
    /\ seenDef = [p \in Procs |-> OrigDefault]
    /\ ret = [p \in Procs |-> NoRet]
    /\ hist = [id \in VarIds |-> "none"]
    /\ cleanPre = [p \in Procs |-> << >>]
    /\ installedMap = << >>
    /\ srcM = [d \in Dirs |-> 1]
    /\ pkgM = [d \in Dirs |-> 0]
    /\ builds = [d \in Dirs |-> 0]
    /\ mt = [p \in Procs |-> 0]
    /\ pmt = [p \in Procs |-> 0]
    /\ built = [p \in Procs |-> "none"]
    /\ jpRoot \in Roots
    /\ jpElems \in ElemLists
    /\ jpOut = << >>

\* go/build calls ctxt.JoinPath, which is i.joinPath (line 109).
JoinPathCall ==
    /\ jpOut = << >>
    /\ jpOut' = joinPath(jpRoot, jpElems)
    /\ UNCHANGED <<jpRoot, jpElems>>
    /\ UNCHANGED <<buildDefault, lockHolder, crashed, origDef, pc, arg, ret>>
    /\ UNCHANGED gbvars
    /\ UNCHANGED cachevars

NextJoin == JoinPathCall

SpecJoin == InitJoin /\ [][NextJoin]_vars

\* ------------------------------------------------------------- properties
\* A call that has run its body and not yet returned: ret[p] is its result,
\* entry[p] the map entry it looked up.
Returning(p) == pc[p] \in {"restore", "unlock"}

\* Between Lock() and Unlock().
InCritical(p) == pc[p] \in {"install", "find", "resolve", "restore", "unlock"}

\* C1: after any sequence of New and ImportFrom operations the map holds at
\* most 100 entries.
C1_CacheNeverExceedsLimit ==
    (\A p \in Procs : pc[p] = "idle") => Cardinality(DOMAIN imports) <= MaxEntries

\* C2: a successful ImportFrom of an artifact-backed id that follows a
\* successful one for the same id, with the artifact's modification time
\* unchanged and the entry not evicted in between, does not decode: it
\* returns the descriptor of the entry it found.
C2_SecondCallIsCacheHit ==
    \A p \in Procs :
        (Returning(p) /\ ret[p].prior = "ok" /\ ret[p].hadFile /\ ret[p].err = "nil")
        => /\ ~ret[p].decoded
           /\ entry[p].ok
           /\ ret[p].pkg = entry[p].e.pkg
           /\ ret[p].pkg # NilPkg

\* Reached: a successful call right after a successful one, same modification time.
C2_Witness ==
    \E p \in Procs :
        /\ pc[p] = "restore" /\ ret[p].prior = "ok" /\ ret[p].hadFile
        /\ ret[p].err = "nil" /\ ~ret[p].decoded

\* C3: when the artifact's modification time differs from the stamp of the
\* entry found for its id, ImportFrom decodes the artifact again (unless the
\* file cannot be stat'ed, opened or read), and on success the entry is
\* replaced by {newly decoded descriptor, current modification time}, which
\* is also what the call returns.
C3_ChangedMTimeRedecodes ==
    \A p \in Procs :
        (Returning(p) /\ ret[p].hadFile /\ entry[p].ok
           /\ entry[p].e.mtime # FileTime(ret[p].mtime))
        => /\ ret[p].err \notin {"stat", "open", "reader"} => ret[p].decoded
           /\ ret[p].err = "nil" =>
                /\ arg[p] \in DOMAIN imports
                /\ imports[arg[p]] = [pkg |-> GcPkg(arg[p], ret[p].mtime),
                                     mtime |-> FileTime(ret[p].mtime)]
                /\ ret[p].pkg = GcPkg(arg[p], ret[p].mtime)
                /\ ret[p].pkg # entry[p].e.pkg

\* Reached: a successful call that found an entry stamped with another modification time.
C3_Witness ==
    \E p \in Procs :
        /\ pc[p] = "restore" /\ ret[p].hadFile /\ entry[p].ok
        /\ entry[p].e.mtime.kind = "file"
        /\ entry[p].e.mtime # FileTime(ret[p].mtime)
        /\ ret[p].err = "nil" /\ ret[p].decoded

\* C4: with no artifact and a fallback entry for the id, ImportFrom returns
\* the cached descriptor without importing exactly while the entry is less
\* than TTL old, and imports again once its age has reached TTL.
C4_FallbackReusedWhileYoung ==
    \A p \in Procs :
        (Returning(p) /\ ~ret[p].hadFile /\ entry[p].ok
           /\ entry[p].e.mtime.kind = "now")
        => /\ ret[p].age < TTL =>
                /\ ~ret[p].underCalled
                /\ ~ret[p].srcCalled
                /\ ret[p].pkg = entry[p].e.pkg
           /\ ret[p].age >= TTL => ret[p].underCalled

\* C5: with no artifact and an entry for the id, when the underlying and
\* the source importer both fail, ImportFrom returns the cached descriptor
\* and no error.
C5_StaleServedWhenImportFails ==
    \A p \in Procs :
        (Returning(p) /\ ~ret[p].hadFile /\ entry[p].ok
           /\ ret[p].underCalled /\ ret[p].u = "fail"
           /\ ret[p].srcCalled /\ ret[p].s = "fail")
        => /\ ret[p].pkg = entry[p].e.pkg
           /\ ret[p].err = "nil"

\* C6: no two calls are between Lock() and Unlock() at once, and what a
\* call's gcexportdata.Find read from build.Default is the settings of its
\* own importer.
C6_BuildDefaultExclusive ==
    /\ \A p, q \in Procs : p # q => ~(InCritical(p) /\ InCritical(q))
    /\ \A p \in Procs :
          pc[p] \in {"resolve", "restore", "unlock"} => seenDef[p] = imp[p]

\* Reached: a call inside its critical section while a caller with other settings waits.
C6_Witness ==
    \E p, q \in Procs :
        /\ p # q /\ imp[p] # imp[q]
        /\ pc[p] = "resolve" /\ seenDef[p] = imp[p]
        /\ pc[q] = "lock" /\ seenDef[q] = imp[q]

\* C7: when ImportFrom returns, on any path, build.Default is what it was
\* when the call took the lock; so whenever the lock is free build.Default
\* is the process's own.
C7_BuildDefaultRestored ==
    /\ \A p \in Procs : pc[p] = "unlock" => buildDefault = origDef[p]
    /\ lockHolder = NoProc => buildDefault = OrigDefault

\* Reached: a call that failed to decode, after its deferred restore.
C7_Witness ==
    \E p \in Procs :
        /\ pc[p] = "unlock" /\ ret[p].err = "decode"
        /\ origDef[p] = OrigDefault /\ buildDefault = OrigDefault

\* C8: the map operations of two callers never overlap: no caller is inside
\* cleanImporter's loop, or between ImportFrom's lookup and store, while
\* another one is.
C8_MapOperationsExclusive ==
    \A p, q \in Procs : p # q => ~(InMap(p) /\ InMap(q))

\* C9: an ImportFrom that fails on an artifact (stat, open, reader or decode
\* error) returns that error and a nil descriptor, and leaves the map as it
\* was.
C9_ErrorLeavesCacheUntouched ==
    [][\A p \in Procs :
          (pc[p] = "resolve" /\ pc'[p] = "restore" /\ FileOf(files, arg[p]) # 0
             /\ ret'[p].err # "nil")
          => /\ ret'[p].err \in ArtifactErrs
             /\ ret'[p].pkg = NilPkg
             /\ imports' = imports]_vars

\* Reached: a decode error for an id that has an entry, which is still in the map.
C9_Witness ==
    \E p \in Procs :
        /\ pc[p] = "restore" /\ ret[p].hadFile /\ ret[p].err = "decode"
        /\ entry[p].ok /\ arg[p] \in DOMAIN imports
        /\ imports[arg[p]] = entry[p].e

\* C10: after a decode error for an id, later calls for it do not decode
\* again while the artifact's modification time is unchanged.
C10_NoRetryAfterDecodeError ==
    \A p \in Procs :
        (Returning(p) /\ ret[p].prior = "decodeFailed" /\ ret[p].hadFile)
        => ~ret[p].decoded

\* C15: ImportFrom changes the map only at the key it resolves, where it
\* adds or replaces the entry; a key leaves the map only in cleanImporter.
C15_ImportFromTouchesOnlyItsKey ==
    [][imports' # imports =>
          \/ \E p \in Procs :
                /\ pc[p] = "resolve" /\ pc'[p] = "restore"
                /\ DOMAIN imports' = DOMAIN imports \cup {arg[p]}
                /\ \A k \in DOMAIN imports : k # arg[p] => imports'[k] = imports[k]
          \/ \E p \in Procs :
                /\ pc[p] = "clean"
                /\ Cardinality(DOMAIN imports) > MaxEntries]_vars

\* Reached: a call has replaced the entry of its id while another id has one.
C15_Witness ==
    \E p \in Procs :
        /\ pc[p] = "restore" /\ ret[p].store /\ entry[p].ok
        /\ imports[arg[p]] # entry[p].e
        /\ \E k \in DOMAIN imports : k # arg[p]

\* C16: with an artifact and no entry for its id, ImportFrom decodes (unless
\* the file cannot be stat'ed, opened or read), whatever the modification
\* time, the instant of the zero time.Time included; and an artifact-backed
\* ImportFrom that returns no error returns a descriptor.
C16_MissingEntryAlwaysDecodes ==
    \A p \in Procs :
        (Returning(p) /\ ret[p].hadFile)
        => /\ (~entry[p].ok /\ ret[p].err \notin {"stat", "open", "reader"})
                => ret[p].decoded
           /\ ret[p].err = "nil" => ret[p].pkg # NilPkg

\* Reached: no entry, an artifact modified at the zero instant, decoded.
C16_Witness ==
    \E p \in Procs :
        /\ pc[p] = "restore" /\ ret[p].hadFile /\ ~entry[p].ok
        /\ ret[p].mtime = ZeroInstant
        /\ ret[p].decoded /\ ret[p].err = "nil" /\ ret[p].pkg # NilPkg

\* C17: every return of ImportFrom carries either a descriptor or an error,
\* never both and never neither.
C17_DescriptorXorError ==
    \A p \in Procs :
        Returning(p) => ((ret[p].pkg # NilPkg) <=> (ret[p].err = "nil"))

\* C18: cleanImporter ends, each iteration before the last deleting one
\* entry of a map of more than 100; it leaves min(n, 100) entries of the n
\* it found, each as it was.
C18_CleanLeavesMinOfSizeAndLimit ==
    [][\A p \in Procs :
          pc[p] = "clean" =>
             IF pc'[p] = "idle"
             THEN /\ Cardinality(DOMAIN imports')
                       = MinOf(Cardinality(DOMAIN cleanPre[p]), MaxEntries)
                  /\ \A k \in DOMAIN imports' :
                        k \in DOMAIN cleanPre[p] /\ imports'[k] = cleanPre[p][k]
             ELSE /\ Cardinality(DOMAIN imports) > MaxEntries
                  /\ Cardinality(DOMAIN imports') = Cardinality(DOMAIN imports) - 1]_vars

\* Reached: cleanImporter found 101 entries and has deleted one.
C18_Witness ==
    \E p \in Procs :
        /\ pc[p] = "clean"
        /\ Cardinality(DOMAIN cleanPre[p]) = MaxEntries + 1
        /\ Cardinality(DOMAIN imports) = MaxEntries

\* C20: every call that waits for buildDefaultLock gets it, and every call
\* that holds it returns.
C20_EveryCallReturns ==
    \A p \in Procs :
        /\ (pc[p] = "lock") ~> (pc[p] = "install")
        /\ InCritical(p) ~> (pc[p] = "idle")

\* C11: whatever the build did, ImportFrom goes on to the underlying
\* importer and returns that importer's error and package (the source
\* importer's package when it has none); a failed build is not returned.
C11_BuildFailureNotReturned ==
    \A p \in Procs :
        GbReturning(p)
        => /\ ret[p].underCalled
           /\ ret[p].err = IF ret[p].u = "ok" THEN "nil" ELSE "notfound"
           /\ ret[p].pkg = IF ret[p].u = "ok" THEN UnderlyingPkg(arg[p])
                           ELSE IF ret[p].s = "ok" THEN SourcePkg(arg[p])
                           ELSE NilPkg

\* Reached: the build failed and the call returns the underlying importer's
\* package with no error.
C11_Witness ==
    \E p \in Procs :
        /\ GbReturning(p) /\ built[p] = "failed"
        /\ ret[p].u = "ok" /\ ret[p].pkg = UnderlyingPkg(arg[p]) /\ ret[p].err = "nil"

\* C12: while the newest source time of a directory stays the same, the
\* calls of one caller after another run the build for it at most once.
C12_AtMostOneBuildPerSourceTime ==
    \A d \in Dirs : builds[d] <= 1

\* Reached: a call found sources and no artifact, and ran no build because
\* one had been run for these sources.
C12_Witness ==
    \E p \in Procs :
        /\ pc[p] = "gbLock" /\ built[p] = "none"
        /\ mt[p] # 0 /\ pmt[p] = 0 /\ mt[p] = srcM[arg[p]]
        /\ builds[arg[p]] = 1

\* C14: a build is run only when there is no artifact or the newest source
\* time is strictly after the artifact's time.
C14_BuildOnlyWhenSourceNewer ==
    \A p \in Procs :
        pc[p] = "gbBuild" => (pmt[p] = 0 \/ mt[p] > pmt[p])

\* C19: no two calls are at an access to installedMap at the same time.
C19_InstalledMapExclusive ==
    \A p, q \in Procs :
        p # q => ~(AtInstalledMap(p) /\ AtInstalledMap(q))

\* The rewriting lines 182-183 ask for, on the elements of the joined path:
\* under the root, after an optional "vendor", "pkg" and then os_arch or
\* os_arch_<suffix> become "pkg" and os-arch or os-arch-<suffix>.
WantedJoin(gbroot, elem) ==
    LET res == Join(elem)
        sr == Segs(gbroot)
        sp == Segs(res)
        under == Len(sr) < Len(sp) /\ SubSeq(sp, 1, Len(sr)) = sr
        rem0 == SubSeq(sp, Len(sr) + 1, Len(sp))
        rem == IF rem0 # << >> /\ Head(rem0) = <<"vendor">> THEN Tail(rem0) ELSE rem0
        dir == rem[2]
        plain == dir = <<OsArch>>
        suffixed == Len(dir) >= 3 /\ dir[1] = OsArch /\ dir[2] = "_"
        dir2 == IF plain THEN <<OsDashArch>>
                ELSE <<OsDashArch, "-">> \o SubSeq(dir, 3, Len(dir))
    IN IF gbroot = << >> \/ ~under THEN res
       ELSE IF Len(rem) < 2 THEN res
       ELSE IF rem[1] # <<"pkg">> \/ ~(plain \/ suffixed) THEN res
       ELSE <<Sep>> \o JoinSep(sr \o <<rem[1], dir2>> \o SubSeq(rem, 3, Len(rem)))

\* C13: joinPath returns the plain join, except that under the alternate
\* root R the path R/(vendor/)?pkg/<os>_<arch>(_<suffix>)?/<rest> becomes
\* R/pkg/<os>-<arch>(-<suffix>)?/<rest>.
C13_JoinPathRewrites ==
    jpOut # << >> => jpOut = WantedJoin(jpRoot, jpElems)

====
